---- MODULE Spec2Model ----
(***************************************************************************)
(* Model of the prime-sieve core of matryoshka_demo_native                 *)
(* (demo/ext/matryoshka_demo_native/core/src/lib.rs): the bit-packed       *)
(* BitSieve, isqrt, the upper-bound estimator and the two public entry     *)
(* points count_primes and nth_prime.  Every loop iteration of the code    *)
(* is one step of the model; usize arithmetic keeps its width: a result    *)
(* outside the word panics when the build checks overflow and wraps        *)
(* modulo 2^usize_bits when it does not.                                   *)
(***************************************************************************)
EXTENDS Integers, Sequences, FiniteSets

\* ---------------------------------------------------------------- bounds
\* Inputs of the bounded-range specification Spec.
MaxLimit == 40
MaxN == 12
\* Width of usize under Spec: wide enough that no input of Spec overflows.
WordBits == 16
\* Width of usize under SpecWord, where every word value is an input.
SmallBits == 5
\* How many times run_sieve may be called on one BitSieve.
MaxRuns == 2
\* Arguments of a direct call of BitSieve::nth_prime.
MaxWant == 4
\* Arguments of a direct call of isqrt.
MaxRadicand == 130

VARIABLES
    overflow_checks,  \* build: TRUE panics on overflow, FALSE wraps
    usize_bits,       \* build: width of usize
    entry,            \* function called from outside
    arg,              \* its argument
    pc,               \* position inside the call
    fault,            \* why the call panicked
    result,           \* returned value: None or Some(v)
    newlimit,         \* BitSieve::new: limit
    bits,             \* BitSieve.bits (byte k of the Vec is bits[k + 1])
    size,             \* BitSieve.size
    limit,            \* run_sieve: limit
    sqrt_limit,       \* run_sieve: sqrt_limit
    i,                \* run_sieve: i
    j,                \* run_sieve: j
    x,                \* isqrt: x
    y,                \* isqrt: y
    want,             \* BitSieve::nth_prime: n
    count,            \* count_primes / nth_prime: count
    idx,              \* count_primes / nth_prime: loop index i of 0..size
    runs,             \* completed calls of run_sieve on this BitSieve
    acc               \* the last is_set / clear call and what it did

vars == <<overflow_checks, usize_bits, entry, arg, pc, fault, result, newlimit,
          bits, size, limit, sqrt_limit, i, j, x, y, want, count, idx, runs, acc>>

build == <<overflow_checks, usize_bits>>
sieve == <<bits, size>>
rsLocals == <<limit, sqrt_limit, i, j>>
sqLocals == <<x, y>>
scan == <<want, count, idx>>

\* ------------------------------------------------------------- arithmetic
RECURSIVE Pow2(_)
Pow2(k) == IF k = 0 THEN 1 ELSE 2 * Pow2(k - 1)

Word == Pow2(usize_bits)

Ovf(v) == v < 0 \/ v >= Word

Wrap(v) == v % Word

None == <<>>

Some(v) == <<v>>

NoAcc == [op |-> "none", n |-> 0, oob |-> FALSE, ret |-> FALSE, changed |-> FALSE]

\* Reference primality by trial division.
IsPrime(n) == n >= 2 /\ \A d \in 2..(n - 1) : n % d # 0

PrimeCount(l) == Cardinality({p \in 0..l : IsPrime(p)})

\* ---------------------------------------------------------------- BitSieve
\* (limit + 1 + 7) / 8, evaluated left to right in usize.
NumBytesSum(l) == Wrap(Wrap(l + 1) + 7)

NumBytesOverflows(l) == Ovf(l + 1) \/ Ovf(Wrap(l + 1) + 7)

NewSize(l) == Wrap(l + 1)

\* the guard of is_set and clear
OutOfRange(n, sz) == n >= sz

\* self.bits[byte_idx] panics when byte_idx is not inside the Vec
IndexFault(b, sz, n) == ~OutOfRange(n, sz) /\ (n \div 8) >= Len(b)

BitOf(byte, k) == (byte \div Pow2(k)) % 2

IsSet(b, sz, n) ==
    IF OutOfRange(n, sz) THEN FALSE
    ELSE BitOf(b[(n \div 8) + 1], n % 8) # 0

\* mutant: ^= in place of &= !
ClearByteToggle(byte, k) ==
    IF BitOf(byte, k) = 1 THEN byte - Pow2(k) ELSE byte + Pow2(k)

\* byte & !(1 << bit_idx)
ClearByte(byte, k) == IF BitOf(byte, k) = 1 THEN byte - Pow2(k) ELSE byte

Clear(b, sz, n) ==
    IF OutOfRange(n, sz) THEN b
    ELSE [b EXCEPT ![(n \div 8) + 1] = ClearByte(@, n % 8)]

AccIsSet(b, sz, n) ==
    [op |-> "is_set", n |-> n, oob |-> OutOfRange(n, sz), ret |-> IsSet(b, sz, n),
     changed |-> FALSE]

AccClear(b, sz, n) ==
    [op |-> "clear", n |-> n, oob |-> OutOfRange(n, sz), ret |-> FALSE,
     changed |-> Clear(b, sz, n) # b]

\* --------------------------------------------------------------- estimator
RECURSIVE BitLength(_)
BitLength(n) == IF n = 0 THEN 0 ELSE 1 + BitLength(n \div 2)

SmallEstimate == 15

\* mutant: the constant used beyond the primes it covers
EstimateSmallWide(n) == n < 8

EstimateSmall(n) == n < 6

EstimateOverflows(n) ==
    Ovf(n * BitLength(n)) \/ Ovf(Wrap(n * BitLength(n)) * 2)

estimate_nth_prime_upper_bound(n) ==
    IF EstimateSmall(n) THEN SmallEstimate
    ELSE Wrap(Wrap(n * BitLength(n)) * 2)

\* --------------------------------------------------------------- run_sieve
\* mutant: the outer loop stops one short of the square root
OuterCondShort(ii, sq) == ii < sq

OuterCond(ii, sq) == ii <= sq

\* mutant: the inner loop skips the square
InnerStartLate(ii) == ii * ii + ii

InnerStart(ii) == ii * ii

\* mutant: the inner loop leaves out limit itself
InnerCondShort(jj, lim) == jj < lim

InnerCond(jj, lim) == jj <= lim

\* ------------------------------------------------------------------- Init
TypeOK == pc \in {"idle", "estimate", "new", "clear0", "clear1", "ready",
                  "run_sieve", "isqrt", "outer", "inner", "count", "nth",
                  "done", "panic"}

InitCommon ==
    /\ overflow_checks \in BOOLEAN
    /\ entry = "none" /\ arg = 0 /\ pc = "idle" /\ fault = "none"
    /\ result = None /\ newlimit = 0 /\ bits = <<>> /\ size = 0
    /\ limit = 0 /\ sqrt_limit = 0 /\ i = 0 /\ j = 0 /\ x = 0 /\ y = 0
    /\ want = 0 /\ count = 0 /\ idx = 0 /\ runs = 0 /\ acc = NoAcc

Init == InitCommon /\ usize_bits = WordBits

InitWord == InitCommon /\ usize_bits = SmallBits

Min(a, b) == IF a < b THEN a ELSE b

\* Arguments a caller passes: every word value up to the bound of the range.
Limits == 0..Min(MaxLimit, Word - 1)

Indexes == 0..Min(MaxN, Word - 1)

Wants == 0..Min(MaxWant, Word - 1)

Radicands == 0..Min(MaxRadicand, Word - 1)

Panic(f) == pc' = "panic" /\ fault' = f

\* ------------------------------------------------------------ entry points
\* mutant: limit = 1 reaches the sieve
CountEarlyReturnOne(l) == l < 1

\* pub fn count_primes(limit), lines 126-131
CountEarlyReturn(l) == l < 2

CallCountPrimes(l) ==
    /\ pc = "idle"
    /\ entry' = "count_primes" /\ arg' = l
    /\ IF CountEarlyReturn(l)
       THEN pc' = "done" /\ result' = Some(0) /\ UNCHANGED newlimit
       ELSE pc' = "new" /\ newlimit' = l /\ UNCHANGED result
    /\ UNCHANGED <<build, fault, sieve, rsLocals, sqLocals, scan, runs, acc>>

\* pub fn nth_prime(n), lines 138-141
NthEarlyReturn(n) == n = 0

CallNthPrime(n) ==
    /\ pc = "idle"
    /\ entry' = "nth_prime" /\ arg' = n
    /\ IF NthEarlyReturn(n)
       THEN pc' = "done" /\ result' = None
       ELSE pc' = "estimate" /\ UNCHANGED result
    /\ UNCHANGED <<build, fault, newlimit, sieve, rsLocals, sqLocals, scan, runs, acc>>

\* let limit = estimate_nth_prime_upper_bound(n), line 146
Estimate ==
    /\ pc = "estimate"
    /\ IF ~EstimateSmall(arg) /\ EstimateOverflows(arg) /\ overflow_checks
       THEN Panic("overflow") /\ UNCHANGED newlimit
       ELSE /\ newlimit' = estimate_nth_prime_upper_bound(arg)
            /\ pc' = "new" /\ UNCHANGED fault
    /\ UNCHANGED <<build, entry, arg, result, sieve, rsLocals, sqLocals, scan, runs, acc>>

\* A direct use of the BitSieve, as the module's own code may make.
CallNew(l) ==
    /\ pc = "idle"
    /\ entry' = "BitSieve" /\ arg' = l /\ newlimit' = l /\ pc' = "new"
    /\ UNCHANGED <<build, fault, result, sieve, rsLocals, sqLocals, scan, runs, acc>>

\* BitSieve::new, lines 19-26
New ==
    /\ pc = "new"
    /\ IF NumBytesOverflows(newlimit) /\ overflow_checks
       THEN Panic("overflow") /\ UNCHANGED sieve
       ELSE /\ bits' = [k \in 1..(NumBytesSum(newlimit) \div 8) |-> 255]
            /\ size' = NewSize(newlimit)
            /\ pc' = "clear0" /\ UNCHANGED fault
    /\ runs' = 0
    /\ UNCHANGED <<build, entry, arg, result, newlimit, rsLocals, sqLocals, scan, acc>>

\* sieve.clear(0), line 29
NewClear0 ==
    /\ pc = "clear0"
    /\ IF IndexFault(bits, size, 0)
       THEN Panic("index") /\ UNCHANGED <<bits, acc>>
       ELSE /\ bits' = Clear(bits, size, 0) /\ acc' = AccClear(bits, size, 0)
            /\ pc' = "clear1" /\ UNCHANGED fault
    /\ UNCHANGED <<build, entry, arg, result, newlimit, size, rsLocals, sqLocals, scan, runs>>

\* sieve.clear(1), line 30, and the return to the caller
NewClear1 ==
    /\ pc = "clear1"
    /\ IF IndexFault(bits, size, 1)
       THEN Panic("index") /\ UNCHANGED <<bits, acc>>
       ELSE /\ bits' = Clear(bits, size, 1) /\ acc' = AccClear(bits, size, 1)
            /\ pc' = IF entry = "BitSieve" THEN "ready" ELSE "run_sieve"
            /\ UNCHANGED fault
    /\ UNCHANGED <<build, entry, arg, result, newlimit, size, rsLocals, sqLocals, scan, runs>>

\* ------------------------------------------------------------------ isqrt
\* lines 110-115: the early return, or the first x and y
IsqrtSmall(n) == n < 2

IsqrtFirstY(n) == Wrap(n + 1) \div 2

IsqrtFirstOverflows(n) == Ovf(n + 1)

\* line 119 with x already replaced by y: (x + n / x) / 2
IsqrtNextY(n, xx) == Wrap(xx + (n \div xx)) \div 2

IsqrtNextOverflows(n, xx) == Ovf(xx + (n \div xx))

IsqrtLoopCond(xx, yy) == yy < xx

\* the argument of the isqrt call in progress
IsqrtArg == IF entry = "isqrt" THEN arg ELSE limit

CallIsqrt(n) ==
    /\ pc = "idle"
    /\ entry' = "isqrt" /\ arg' = n
    /\ IF IsqrtSmall(n)
       THEN pc' = "done" /\ result' = Some(n) /\ UNCHANGED <<fault, sqLocals>>
       ELSE IF IsqrtFirstOverflows(n) /\ overflow_checks
       THEN Panic("overflow") /\ UNCHANGED <<result, sqLocals>>
       ELSE /\ x' = n /\ y' = IsqrtFirstY(n)
            /\ pc' = "isqrt" /\ UNCHANGED <<fault, result>>
    /\ UNCHANGED <<build, newlimit, sieve, rsLocals, scan, runs, acc>>

\* run_sieve, lines 59-62: limit, the call of isqrt, and i = 2
RunSieveLimitUnderflows == Ovf(size - 1)

RunSieve ==
    /\ \/ pc = "run_sieve"
       \/ pc = "ready" /\ runs < MaxRuns
    /\ IF RunSieveLimitUnderflows /\ overflow_checks
       THEN Panic("overflow") /\ UNCHANGED <<rsLocals, sqLocals>>
       ELSE /\ limit' = Wrap(size - 1)
            /\ IF IsqrtSmall(limit')
               THEN /\ sqrt_limit' = limit' /\ i' = 2 /\ pc' = "outer"
                    /\ UNCHANGED <<fault, j, sqLocals>>
               ELSE IF IsqrtFirstOverflows(limit') /\ overflow_checks
               THEN Panic("overflow") /\ UNCHANGED <<sqrt_limit, i, j, sqLocals>>
               ELSE /\ x' = limit' /\ y' = IsqrtFirstY(limit')
                    /\ pc' = "isqrt" /\ UNCHANGED <<fault, sqrt_limit, i, j>>
    /\ UNCHANGED <<build, entry, arg, result, newlimit, sieve, scan, runs, acc>>

\* one test of `while y < x` (lines 117-122): an iteration, or the return of x
IsqrtLoop ==
    /\ pc = "isqrt"
    /\ IF IsqrtLoopCond(x, y)
       THEN IF y = 0
            THEN Panic("div_zero") /\ UNCHANGED <<sqLocals, result, sqrt_limit, i>>
            ELSE IF IsqrtNextOverflows(IsqrtArg, y) /\ overflow_checks
            THEN Panic("overflow") /\ UNCHANGED <<sqLocals, result, sqrt_limit, i>>
            ELSE /\ x' = y /\ y' = IsqrtNextY(IsqrtArg, y)
                 /\ UNCHANGED <<pc, fault, result, sqrt_limit, i>>
       ELSE IF entry = "isqrt"
            THEN /\ pc' = "done" /\ result' = Some(x)
                 /\ UNCHANGED <<fault, sqLocals, sqrt_limit, i>>
            ELSE /\ sqrt_limit' = x /\ i' = 2 /\ pc' = "outer"
                 /\ UNCHANGED <<fault, sqLocals, result>>
    /\ UNCHANGED <<build, entry, arg, newlimit, sieve, limit, j, scan, runs, acc>>

\* ------------------------------------------------------- run_sieve's loops
\* one test of `while i <= sqrt_limit` (lines 63-66, 72), or the return
Outer ==
    /\ pc = "outer"
    /\ IF OuterCond(i, sqrt_limit)
       THEN IF IndexFault(bits, size, i)
            THEN Panic("index") /\ UNCHANGED <<i, j, acc, runs, scan, result>>
            ELSE /\ acc' = AccIsSet(bits, size, i)
                 /\ IF IsSet(bits, size, i)
                    THEN IF Ovf(InnerStart(i)) /\ overflow_checks
                         THEN Panic("overflow") /\ UNCHANGED <<i, j>>
                         ELSE /\ j' = Wrap(InnerStart(i)) /\ pc' = "inner"
                              /\ UNCHANGED <<i, fault>>
                    ELSE i' = i + 1 /\ UNCHANGED <<pc, fault, j>>
                 /\ UNCHANGED <<runs, scan, result>>
       ELSE /\ runs' = runs + 1
            /\ IF entry = "BitSieve"
               THEN pc' = "ready" /\ UNCHANGED <<scan, result>>
               ELSE IF entry = "count_primes"
               THEN /\ pc' = "count" /\ count' = 0 /\ idx' = 0
                    /\ UNCHANGED <<want, result>>
               ELSE IF NthEarlyReturn(arg)
               THEN pc' = "done" /\ result' = None /\ UNCHANGED scan
               ELSE /\ pc' = "nth" /\ want' = arg /\ count' = 0 /\ idx' = 0
                    /\ UNCHANGED result
            /\ UNCHANGED <<i, j, acc, fault>>
    /\ UNCHANGED <<build, entry, arg, newlimit, sieve, limit, sqrt_limit, sqLocals>>

\* one test of `while j <= limit` (lines 67-70)
Inner ==
    /\ pc = "inner"
    /\ IF InnerCond(j, limit)
       THEN IF IndexFault(bits, size, j)
            THEN Panic("index") /\ UNCHANGED <<bits, acc, i, j>>
            ELSE IF Ovf(j + i) /\ overflow_checks
            THEN /\ bits' = Clear(bits, size, j) /\ acc' = AccClear(bits, size, j)
                 /\ Panic("overflow") /\ UNCHANGED <<i, j>>
            ELSE /\ bits' = Clear(bits, size, j) /\ acc' = AccClear(bits, size, j)
                 /\ j' = Wrap(j + i)
                 /\ UNCHANGED <<pc, fault, i>>
       ELSE i' = i + 1 /\ pc' = "outer" /\ UNCHANGED <<bits, acc, j, fault>>
    /\ UNCHANGED <<build, entry, arg, result, newlimit, size, limit, sqrt_limit,
                   sqLocals, scan, runs>>

\* ------------------------------------------------- counting and searching
\* BitSieve::count_primes called directly, line 78
CallCount ==
    /\ pc = "ready"
    /\ pc' = "count" /\ count' = 0 /\ idx' = 0
    /\ UNCHANGED <<build, entry, arg, fault, result, newlimit, sieve, rsLocals,
                   sqLocals, want, runs, acc>>

\* one step of `for i in 0..self.size` (lines 80-85), or the return of count
CountStep ==
    /\ pc = "count"
    /\ IF idx < size
       THEN IF IndexFault(bits, size, idx)
            THEN Panic("index") /\ UNCHANGED <<count, idx, acc, result>>
            ELSE /\ acc' = AccIsSet(bits, size, idx)
                 /\ count' = IF IsSet(bits, size, idx) THEN count + 1 ELSE count
                 /\ idx' = idx + 1
                 /\ UNCHANGED <<pc, fault, result>>
       ELSE /\ pc' = "done" /\ result' = Some(count)
            /\ UNCHANGED <<count, idx, acc, fault>>
    /\ UNCHANGED <<build, entry, arg, newlimit, sieve, rsLocals, sqLocals, want, runs>>

\* BitSieve::nth_prime called directly, lines 90-94
CallNth(n) ==
    /\ pc = "ready"
    /\ IF NthEarlyReturn(n)
       THEN pc' = "done" /\ result' = None /\ want' = n /\ UNCHANGED <<count, idx>>
       ELSE /\ pc' = "nth" /\ want' = n /\ count' = 0 /\ idx' = 0
            /\ UNCHANGED result
    /\ UNCHANGED <<build, entry, arg, fault, newlimit, sieve, rsLocals, sqLocals,
                   runs, acc>>

\* mutant: the running count compared one late
NthHitLate(c, n) == c = n + 1

\* count == n, line 98
NthHit(c, n) == c = n

\* one step of `for i in 0..self.size` (lines 95-103), or the return of None
NthStep ==
    /\ pc = "nth"
    /\ IF idx < size
       THEN IF IndexFault(bits, size, idx)
            THEN Panic("index") /\ UNCHANGED <<count, idx, acc, result>>
            ELSE /\ acc' = AccIsSet(bits, size, idx)
                 /\ IF IsSet(bits, size, idx)
                    THEN /\ count' = count + 1
                         /\ IF NthHit(count + 1, want)
                            THEN pc' = "done" /\ result' = Some(idx) /\ UNCHANGED idx
                            ELSE idx' = idx + 1 /\ UNCHANGED <<pc, result>>
                    ELSE idx' = idx + 1 /\ UNCHANGED <<pc, result, count>>
                 /\ UNCHANGED fault
       ELSE /\ pc' = "done" /\ result' = None
            /\ UNCHANGED <<count, idx, acc, fault>>
    /\ UNCHANGED <<build, entry, arg, newlimit, sieve, rsLocals, sqLocals, want, runs>>

\* BitSieve::is_set called directly with any index, lines 37-44
Probe(n) ==
    /\ pc = "ready"
    /\ IF IndexFault(bits, size, n)
       THEN Panic("index") /\ UNCHANGED acc
       ELSE acc' = AccIsSet(bits, size, n) /\ pc' = "done" /\ UNCHANGED fault
    /\ UNCHANGED <<build, entry, arg, result, newlimit, sieve, rsLocals, sqLocals,
                   scan, runs>>

\* ------------------------------------------------------------------- Next
Next ==
    \/ \E l \in Limits : CallCountPrimes(l)
    \/ \E n \in Indexes : CallNthPrime(n)
    \/ \E l \in Limits : CallNew(l)
    \/ \E n \in Radicands : CallIsqrt(n)
    \/ Estimate
    \/ New
    \/ NewClear0
    \/ NewClear1
    \/ RunSieve
    \/ IsqrtLoop
    \/ Outer
    \/ Inner
    \/ CallCount
    \/ CountStep
    \/ \E n \in Wants : CallNth(n)
    \/ NthStep
    \/ \E n \in 0..(size + 1) : Probe(n)

\* Bounded ranges of arguments in a word wide enough for all of them.
Spec == Init /\ [][Next]_vars

\* Every value of a narrow word as an argument.
SpecWord == InitWord /\ [][Next]_vars

\* ----------------------------------------------------------------- claims
Returned(f) == pc = "done" /\ entry = f

SetBits == {n \in 0..(size - 1) : IsSet(bits, size, n)}

InRunSieve == pc \in {"run_sieve", "isqrt", "outer", "inner"}

\* C1: count_primes(limit) returns the number of primes p <= limit, primality
\* being decided by trial division.
C1_CountPrimesExact ==
    Returned("count_primes") => result = Some(PrimeCount(arg))

C1_Witness ==
    Returned("count_primes") /\ arg = 37 /\ result = Some(12) /\ runs = 1

\* C2: when nth_prime(n), n >= 1, returns Some(p), p is prime and exactly n
\* primes are <= p.
C2_NthPrimeConsistent ==
    (Returned("nth_prime") /\ arg >= 1 /\ result # None)
        => IsPrime(result[1]) /\ PrimeCount(result[1]) = arg

C2_Witness == Returned("nth_prime") /\ arg = 12 /\ result = Some(37)

\* C3: for n >= 1 the estimated bound is at least the n-th prime, so the
\* sieve over [0, bound] holds at least n primes and nth_prime(n) returns Some.
C3_EstimateSufficient ==
    (entry = "nth_prime" /\ arg >= 1)
        => /\ pc = "new" => PrimeCount(newlimit) >= arg
           /\ pc = "nth" => Cardinality(SetBits) >= arg
           /\ pc = "done" => result # None

C3_Witness ==
    Returned("nth_prime") /\ arg = 6 /\ newlimit = 36 /\ result = Some(13)

\* C4: nth_prime(0) returns None and count_primes(limit) returns 0 for
\* limit < 2, each before any sieve is constructed or run.
C4_DegenerateInputs ==
    /\ (entry = "nth_prime" /\ arg = 0) => pc = "done" /\ result = None
    /\ (entry = "count_primes" /\ arg < 2) => pc = "done" /\ result = Some(0)
    /\ ((entry = "nth_prime" /\ arg = 0) \/ (entry = "count_primes" /\ arg < 2))
          => bits = <<>> /\ size = 0 /\ runs = 0 /\ acc = NoAcc

C4_Witness == Returned("count_primes") /\ arg = 1 /\ result = Some(0)

\* C5: count_primes and nth_prime have no error case: whatever word value
\* the argument is, the call never panics (no overflow, no fault).
C5_NoErrorCases ==
    entry \in {"count_primes", "nth_prime"} => pc # "panic"

\* C6: once run_sieve has returned, bit n is set iff n is prime, for every
\* n < size; and no prime index is cleared at any time.
C6_SieveMarksPrimes ==
    /\ \A n \in 0..(size - 1) : IsPrime(n) => IsSet(bits, size, n)
    /\ (runs >= 1 /\ pc # "panic")
          => \A n \in 0..(size - 1) : IsSet(bits, size, n) <=> IsPrime(n)

C6_Witness ==
    /\ entry = "BitSieve" /\ pc = "ready" /\ runs = 1 /\ size = 26
    /\ IsSet(bits, size, 23) /\ ~IsSet(bits, size, 25)

\* C7: is_set(n) is false and clear(n) changes nothing when n >= size, the
\* buffer holds ceil(size / 8) bytes, and no byte index used is outside it.
C7_BoundsSafe ==
    /\ fault # "index"
    /\ acc.oob => ~acc.ret /\ ~acc.changed
    /\ Len(bits) = (size + 7) \div 8
    /\ (acc.op # "none" /\ ~acc.oob) => (acc.n \div 8) < Len(bits)

\* C8: isqrt(n) returns the r with r * r <= n < (r + 1) * (r + 1) for every
\* word value n, without a panic.
C8_IsqrtExact ==
    entry = "isqrt"
        => /\ pc # "panic"
           /\ pc = "done" => /\ result[1] * result[1] <= arg
                              /\ arg < (result[1] + 1) * (result[1] + 1)

\* C9: each time the outer loop of run_sieve reaches i, every composite
\* m <= limit with a prime factor below i is cleared, i is set iff i is prime,
\* and every k * i with 2 <= k < i is cleared.
C9_OuterLoopInvariant ==
    (pc = "outer" /\ OuterCond(i, sqrt_limit))
        => /\ \A m \in 2..limit :
                 (\E q \in 2..(i - 1) : IsPrime(q) /\ m # q /\ m % q = 0)
                     => ~IsSet(bits, size, m)
           /\ IsSet(bits, size, i) <=> IsPrime(i)
           /\ \A k \in 2..(i - 1) : k * i <= limit => ~IsSet(bits, size, k * i)

C9_Witness ==
    /\ pc = "outer" /\ runs = 0 /\ i = 5 /\ sqrt_limit >= 5
    /\ IsSet(bits, size, 5) /\ IsSet(bits, size, 25) /\ ~IsSet(bits, size, 20)

\* C10: once run_sieve has returned, no later call of it clears a bit, and
\* no step of run_sieve changes size.
C10_RunSieveIdempotent ==
    [][/\ (runs >= 1 => bits' = bits)
       /\ (InRunSieve => size' = size)]_vars

C10_Witness ==
    /\ pc = "inner" /\ runs = 1 /\ acc.op = "clear" /\ ~acc.oob /\ ~acc.changed

====
